---------------------------- MODULE Spec2Model ----------------------------
(***************************************************************************)
(* Model of the RH assistant (boulkadi/chatbot_RH): the retrieval tool     *)
(* (src/agents/tools.py), the vector store manager                         *)
(* (src/data/vectorstore.py) and the conversation entry point              *)
(* (src/agents/rh_agent.py).                                               *)
(*                                                                         *)
(* Two collaborators are outside the repository and are modelled by what   *)
(* their callers can observe:                                              *)
(*   - FAISS.similarity_search(query, k, filter): returns at most k        *)
(*     distinct indexed documents whose metadata matches every key of the  *)
(*     filter, in an order the model does not fix, or raises;              *)
(*   - the language model behind create_agent: at each step it either      *)
(*     calls search_rh_expert with arguments of its choice, or emits a     *)
(*     final message of its choice, or fails.  The system prompt is text   *)
(*     handed to it, not a guard of the code, so every choice is kept.     *)
(* Strings are sequences of tokens; "x in s" of Python is Contains(s, x).  *)
(***************************************************************************)
EXTENDS Integers, Sequences, FiniteSets, TLC

\* ------------------------------------------------------------------ bounds
MaxDocs == 5          \* rows of the knowledge table (tool-level specification)
MaxToolCalls == 1     \* tool calls the language model makes in one turn
MaxTurns == 2         \* turns accepted in all, over the threads
MaxRows == 11         \* rows of a table of rows without id (loader)
MaxBadRows == 2       \* rows of such a table that fail validation
MaxStoreDocs == 2     \* rows of the knowledge table (vector store operations)
MaxThreads == 2       \* threads of the process that make a first use
MaxLongTurns == 4     \* turns of the thread whose history is compacted
MaxDetailRows == 2    \* rows of a table of rows that differ cell by cell

\* ---------------------------------------------------------------- constants
VECTORSTORE_K == 4
AGENT_SUMMARY_TRIGGER_TOKENS == 1000
AGENT_KEEP_MESSAGES == 5

\* models.py: ProfileType, DomaineType (two members of each closed set)
ProfileType == {"CDI", "CDD"}
DomaineType == {"Congés", "Paie"}
None == "None"
Queries == {"q1"}

Range(s) == {s[i] : i \in DOMAIN s}

\* A token of a string.
Lit(s) == [lit |-> s]
\* str(e) of an exception e
StrExc(e) == [exc |-> e]
Contains(text, tok) == \E i \in DOMAIN text : text[i] = tok

\* Python results: a returned value or a raised exception.
Return(v) == [raised |-> FALSE, val |-> v]
Raise(e) == [raised |-> TRUE, exc |-> e]

\* ------------------------------------------------------------- data/loader
\* A document of the index: metadata {profil, domaine, question_id}; the
\* page content is determined by the row, named here by its position.
Document(i, p, d) == [question_id |-> i, profil |-> p, domaine |-> d]

\* RHDataLoader.load_csv followed by to_documents, as get_or_create calls them.
load_documents(src) ==
    IF ~src.ok THEN Raise("CSVLoadError")
    ELSE IF src.rows = <<>> THEN Raise("DataError")
    ELSE Return(src.rows)

\* ---- the knowledge table as a file, and RHDataLoader row by row
\* Text is a sequence of characters.
Sp == " "

RECURSIVE lstrip(_)
lstrip(s) == IF s # <<>> /\ Head(s) = Sp THEN lstrip(Tail(s)) ELSE s

RECURSIVE rstrip(_)
rstrip(s) ==
    IF s # <<>> /\ s[Len(s)] = Sp THEN rstrip(SubSeq(s, 1, Len(s) - 1)) ELSE s

\* str.strip()
strip(s) == rstrip(lstrip(s))

\* The characters of the members of the closed sets.
Spell(w) ==
    CASE w = "CDI" -> <<"C", "D", "I">>
      [] w = "CDD" -> <<"C", "D", "D">>
      [] w = "Congés" -> <<"C", "o", "n", "g", "é", "s">>
      [] w = "Paie" -> <<"P", "a", "i", "e">>

\* Validation of a Literal[...] field: the members the text spells.
Literal(S, text) == {w \in S : Spell(w) = text}

\* A cell of the column question_id after fillna(""): "" for a missing
\* value, a number, or a text that is not a number.
NaN == [t |-> "nan"]
IntId(n) == [t |-> "int", v |-> n]
TextId == [t |-> "str"]

\* int(row["question_id"]) if row["question_id"] else index + 1, on the row
\* at position i (index = i - 1).
row_question_id(cell, i) ==
    IF cell.t = "nan" \/ (cell.t = "int" /\ cell.v = 0) THEN Return(i)
    ELSE IF cell.t = "int" THEN Return(cell.v)
    ELSE Raise("ValueError")

QUESTION_MIN_LENGTH == 5
REPONSE_MIN_LENGTH == 10

\* RHQuestion(question_id=..., profil=..., domaine=..., question=...,
\* reponse=...): the validated model or the validation error.
RHQuestion(question_id, profil, domaine, question, reponse) ==
    IF \/ Literal(ProfileType, profil) = {}
       \/ Literal(DomaineType, domaine) = {}
       \/ Len(question) < QUESTION_MIN_LENGTH
       \/ Len(reponse) < REPONSE_MIN_LENGTH
       \/ strip(question) = <<>>
       \/ strip(reponse) = <<>>
    THEN Raise("ValidationError")
    ELSE Return([question_id |-> question_id,
                 profil |-> CHOOSE w \in Literal(ProfileType, profil) : TRUE,
                 domaine |-> CHOOSE w \in Literal(DomaineType, domaine) : TRUE,
                 question |-> strip(question),
                 reponse |-> strip(reponse)])

\* The body of the loop of load_csv for the row at position i.
validate_row(row, i) ==
    LET id == row_question_id(row.question_id, i)
    IN IF id.raised THEN id
       ELSE RHQuestion(id.val, strip(row.profil), strip(row.domaine),
                       strip(row.question), strip(row.reponse))

\* validated_data: the rows that passed, in the order of the table.
RECURSIVE validated_data(_, _)
validated_data(rows, i) ==
    IF i > Len(rows) THEN <<>>
    ELSE LET r == validate_row(rows[i], i)
         IN (IF r.raised THEN <<>> ELSE <<r.val>>) \o validated_data(rows, i + 1)

\* errors: the entries {"ligne": index + 2, ...} of the rows that failed.
RECURSIVE validation_errors(_, _)
validation_errors(rows, i) ==
    IF i > Len(rows) THEN <<>>
    ELSE (IF validate_row(rows[i], i).raised THEN <<[ligne |-> i + 1]>> ELSE <<>>)
         \o validation_errors(rows, i + 1)

\* A threshold that also fails a table with exactly one row in ten rejected.
too_many_errors_inclusive(nErrors, nRows) == nErrors * 10 >= nRows

\* len(errors) > len(self._df) * 0.1; the float product decides as the
\* integers do (compared for every count up to 200000 rows).
too_many_errors(nErrors, nRows) == nErrors * 10 > nRows

required_columns == {"question_id", "profil", "domaine", "question", "reponse"}

\* RHDataLoader.load_csv on the file csv: what it returns or raises, and the
\* errors it reports as warnings.
load_csv(csv) ==
    IF ~csv.exists THEN [res |-> Raise("CSVLoadError"), errors |-> <<>>]
    ELSE IF csv.columns = {} THEN [res |-> Raise("CSVLoadError"), errors |-> <<>>]
    ELSE IF required_columns \ csv.columns # {}
    THEN [res |-> Raise("InvalidDataFormatError"), errors |-> <<>>]
    ELSE LET errors == validation_errors(csv.rows, 1)
         IN IF too_many_errors(Len(errors), Len(csv.rows))
            THEN [res |-> Raise("InvalidDataFormatError"), errors |-> errors]
            ELSE [res |-> Return(validated_data(csv.rows, 1)), errors |-> errors]

\* An assignment that keeps the records of the earlier load.
store_data_extend(old, validated) == old \o validated

\* self._data = validated_data
store_data(old, validated) == validated

\* A load that empties the records on entry.
data_after_load_reset(old, res) == IF res.raised THEN <<>> ELSE res.val

\* self._data after load_csv: assigned only once validation has passed.
data_after_load(old, res) == IF res.raised THEN old ELSE store_data(old, res.val)

\* The document of a record: page content and metadata.
to_document(item) ==
    [page_content |-> <<"Question: ", item.question, "\nRéponse: ", item.reponse>>,
     profil |-> item.profil, domaine |-> item.domaine,
     question_id |-> item.question_id]

\* A conversion that keeps one document per question_id.
RECURSIVE dedup_from(_, _)
dedup_from(data, i) ==
    IF i > Len(data) THEN <<>>
    ELSE (IF \E j \in 1..(i - 1) : data[j].question_id = data[i].question_id
          THEN <<>> ELSE <<to_document(data[i])>>)
         \o dedup_from(data, i + 1)

to_documents_dedup(data) ==
    IF data = <<>> THEN Raise("DataError") ELSE Return(dedup_from(data, 1))

\* RHDataLoader.to_documents on self._data
to_documents(data) ==
    IF data = <<>> THEN Raise("DataError")
    ELSE Return([i \in DOMAIN data |-> to_document(data[i])])

\* -------------------------------------------------------- data/vectorstore
\* Positions of the index whose metadata matches every key of the filter.
Matching(vs, filter) ==
    {i \in DOMAIN vs : \A key \in DOMAIN filter : vs[i][key] = filter[key]}

\* The positions of S in increasing order.
RECURSIVE InOrder(_)
InOrder(S) ==
    IF S = {} THEN <<>>
    ELSE LET m == CHOOSE x \in S : \A y \in S : x <= y
         IN <<m>> \o InOrder(S \ {m})

\* The selections of at most n positions of S, each listed by position.
Selections(S, n) == {InOrder(T) : T \in {U \in SUBSET S : Cardinality(U) <= n}}

\* The vector the embeddings give to a document: a function of its page
\* content, which its question_id names.
Embed(doc) == doc.question_id

\* An optional FAISS index: Python None, or the documents it holds (the
\* docstore, in insertion order) with their vectors.
NoIndex == [exists |-> FALSE, docs |-> <<>>]
Index(docs) ==
    [exists |-> TRUE, docs |-> docs, vectors |-> [i \in DOMAIN docs |-> Embed(docs[i])]]

\* The persist directory: without index.faiss, or with the two artifacts
\* save_local writes, index.faiss (the vectors) and index.pkl (the docstore).
NoFile == [exists |-> FALSE]
\* The persist directory removed from the disk.
NoDir == [exists |-> FALSE, dir |-> FALSE]

\* persist_directory.mkdir(parents=True, exist_ok=True)
mkdir(file) == IF file = NoDir THEN NoFile ELSE file

\* FAISS.save_local(folder_path): the artifacts written for the index ix.
save_local(ix) == [exists |-> TRUE, faiss |-> ix.vectors, pkl |-> ix.docs]

\* A restore that embeds nothing and leaves every vector at the origin.
load_local_blank(dir) ==
    [exists |-> TRUE, docs |-> dir.pkl, vectors |-> [i \in DOMAIN dir.pkl |-> 0]]

\* FAISS.load_local(folder_path, embeddings, ...): the index read back.
load_local(dir) == [exists |-> TRUE, docs |-> dir.pkl, vectors |-> dir.faiss]

\* FAISS.similarity_search(query, k, filter): the possible ranked results.
similarity_search(vs, k, filter) ==
    {[j \in DOMAIN s |-> vs.docs[s[j]]] : s \in Selections(Matching(vs.docs, filter), k)}

\* The vector of a query.
StoreQueries == {"q1", "q2"}
QueryVector(q) == IF q = "q1" THEN 1 ELSE 3
Distance(q, v) == IF v >= QueryVector(q) THEN v - QueryVector(q) ELSE QueryVector(q) - v

\* Position i of the index is nearer to the query than position j.
Nearer(ix, q, i, j) ==
    \/ Distance(q, ix.vectors[i]) < Distance(q, ix.vectors[j])
    \/ Distance(q, ix.vectors[i]) = Distance(q, ix.vectors[j]) /\ i < j

\* The documents of the k matching positions nearest to the query: the
\* result of similarity_search once the vectors fix the order.
nearest(ix, q, k, filter) ==
    LET M == Matching(ix.docs, filter)
    IN {ix.docs[i] : i \in {m \in M : Cardinality({j \in M : Nearer(ix, q, j, m)}) < k}}

\* A search that asks the index without looking whether there is one.
search_unchecked(vs, k, filter_dict, fault) ==
    IF fault THEN {Raise("VectorStoreError")}
    ELSE {Return(r) : r \in similarity_search(vs, k, filter_dict)}

\* RHVectorStore.search
search(vs, k, filter_dict, fault) ==
    IF ~vs.exists THEN {Raise("VectorStoreError")}
    ELSE IF fault THEN {Raise("VectorStoreError")}
    ELSE {Return(r) : r \in similarity_search(vs, k, filter_dict)}

\* RHVectorStore.load on the directory file: the handle or the exception.
load(file, fault) ==
    IF ~file.exists THEN Raise("VectorStoreError")
    ELSE IF fault THEN Raise("VectorStoreError")
    ELSE Return(load_local(file))

\* RHVectorStore.save of the index vs: the exception or None, and the
\* directory it leaves.
save(vs, file, fault) ==
    IF ~vs.exists THEN [res |-> Raise("VectorStoreError"), file |-> file]
    ELSE IF fault THEN [res |-> Raise("VectorStoreError"), file |-> file]
    ELSE [res |-> Return(None), file |-> save_local(vs)]

\* RHVectorStore.create_from_documents(documents, save): the handle or the
\* exception, self.vectorstore and the directory it leaves (fault: the
\* embedding of the documents fails; saveFault: save_local fails).
create_from_documents(vs, file, documents, doSave, fault, saveFault) ==
    IF fault THEN [res |-> Raise("VectorStoreError"), vs |-> vs, file |-> file]
    ELSE IF ~doSave THEN [res |-> Return(Index(documents)), vs |-> Index(documents), file |-> file]
    ELSE LET saved == save(Index(documents), file, saveFault)
         IN IF saved.res.raised
            THEN [res |-> Raise("VectorStoreError"), vs |-> Index(documents), file |-> saved.file]
            ELSE [res |-> Return(Index(documents)), vs |-> Index(documents), file |-> saved.file]

\* RHVectorStore.delete: self.vectorstore and the directory it leaves. The
\* directory is removed and the handle dropped only if the directory exists.
delete(vs, file) ==
    IF file # NoDir THEN [vs |-> NoIndex, file |-> NoDir]
    ELSE [vs |-> vs, file |-> file]

\* A get_or_create that restores whenever the artifact exists.
get_or_create_ignore_force(file, src, force_recreate, fault) ==
    IF file.exists
    THEN [res |-> load(file, fault), file |-> file, did |-> "load"]
    ELSE LET docs == load_documents(src)
         IN IF docs.raised THEN [res |-> docs, file |-> file, did |-> "create"]
            ELSE LET made == create_from_documents(NoIndex, file, docs.val, TRUE, fault, FALSE)
                 IN [res |-> made.res, file |-> made.file, did |-> "create"]

\* RHVectorStore.get_or_create(force_recreate) on a fresh RHVectorStore:
\* the FAISS handle it returns, the directory it leaves and the branch taken.
get_or_create(file, src, force_recreate, fault) ==
    IF file.exists /\ ~force_recreate
    THEN [res |-> load(file, fault), file |-> file, did |-> "load"]
    ELSE LET docs == load_documents(src)
         IN IF docs.raised THEN [res |-> docs, file |-> file, did |-> "create"]
            ELSE LET made == create_from_documents(NoIndex, file, docs.val, TRUE, fault, FALSE)
                 IN [res |-> made.res, file |-> made.file, did |-> "create"]

\* loader.load_csv() then loader.to_documents() on a new RHDataLoader
load_then_to_documents(csv) ==
    LET loaded == load_csv(csv).res
    IN IF loaded.raised THEN loaded ELSE to_documents(loaded.val)

\* A get_or_create that clears the directory before a forced rebuild.
get_or_create_clear_first(vs, file, csv, force_recreate, fault) ==
    IF file.exists /\ ~force_recreate
    THEN LET got == load(file, fault)
         IN [res |-> got, vs |-> IF got.raised THEN vs ELSE got.val,
             file |-> file, did |-> "load"]
    ELSE LET docs == load_then_to_documents(csv)
         IN IF docs.raised THEN [res |-> docs, vs |-> vs, file |-> NoFile, did |-> "create"]
            ELSE LET made == create_from_documents(vs, file, docs.val, TRUE, fault, FALSE)
                 IN [res |-> made.res, vs |-> made.vs, file |-> made.file, did |-> "create"]

\* RHVectorStore.get_or_create(force_recreate) on the store whose handle is
\* vs, the knowledge table being the file csv: what it returns or raises,
\* self.vectorstore and the directory it leaves, and the branch taken.
get_or_create_from_csv(vs, file, csv, force_recreate, fault) ==
    IF file.exists /\ ~force_recreate
    THEN LET got == load(file, fault)
         IN [res |-> got, vs |-> IF got.raised THEN vs ELSE got.val,
             file |-> file, did |-> "load"]
    ELSE LET docs == load_then_to_documents(csv)
         IN IF docs.raised THEN [res |-> docs, vs |-> vs, file |-> file, did |-> "create"]
            ELSE LET made == create_from_documents(vs, file, docs.val, TRUE, fault, FALSE)
                 IN [res |-> made.res, vs |-> made.vs, file |-> made.file, did |-> "create"]

\* get_vectorstore(force_recreate)
get_vectorstore(file, src, force_recreate, fault) ==
    get_or_create(file, src, force_recreate, fault)

\* ------------------------------------------------------------ agents/tools
NOT_FOUND_PREFIX == Lit("ERREUR_NOT_FOUND")
TECH_PREFIX == Lit("ERREUR_TECHNIQUE")

\* The text returned when the search yields no document.
NotFoundText ==
    <<NOT_FOUND_PREFIX,
      Lit(": Je ne trouve pas de procédure spécifique pour votre profil et cette question. Veuillez contacter le service RH ou consulter le portail SAP.")>>

\* The text returned when the search raises e.
TechText(e) ==
    <<TECH_PREFIX,
      Lit(": Une erreur s'est produite lors de la recherche. Détails: "),
      StrExc(e)>>

\* One result block: header, page content, provenance, blank line.
Block(i, doc) ==
    <<[line |-> "--- Résultat", n |-> i],
      [line |-> "page_content", question_id |-> doc.question_id],
      [line |-> "(Profil, Domaine)", profil |-> doc.profil, domaine |-> doc.domaine],
      [line |-> ""]>>

\* A rendering that keeps the first result only.
FoundText_first_only(docs, i) ==
    IF i > Len(docs) THEN <<>> ELSE Block(i, docs[i])

RECURSIVE FoundText(_, _)
FoundText(docs, i) ==
    IF i > Len(docs) THEN <<>> ELSE Block(i, docs[i]) \o FoundText(docs, i + 1)

\* "if domaine:" of Python
Truthy(domaine) == domaine # None

\* A filter that forgets the profile once a domain is supplied.
search_filter_domain_only(user_profile, domaine) ==
    IF Truthy(domaine)
    THEN [domaine |-> domaine]
    ELSE [profil |-> user_profile]

\* RHTools.search_rh_knowledge: the filter it builds.
search_filter(user_profile, domaine) ==
    IF Truthy(domaine)
    THEN [profil |-> user_profile, domaine |-> domaine]
    ELSE [profil |-> user_profile]

\* The strict variant: an empty result is raised as NoAnswerFoundError inside
\* the try block and so comes back as a technical error.
format_result_strict(res) ==
    IF res.raised THEN TechText(res.exc)
    ELSE IF res.val = <<>> THEN TechText("NoAnswerFoundError")
    ELSE FoundText(res.val, 1)

\* RHTools.search_rh_knowledge: the string it returns for one result of search.
format_result(res) ==
    IF res.raised THEN TechText(res.exc)
    ELSE IF res.val = <<>> THEN NotFoundText
    ELSE FoundText(res.val, 1)

\* RHTools.search_rh_knowledge(query, user_profile, domaine): what a call can
\* yield on the FAISS handle self_vs, as [text, searched], searched being the
\* result of vs.search.
search_rh_knowledge(self_vs, user_profile, domaine, fault) ==
    {[text |-> format_result(res), searched |-> res] :
        res \in search(self_vs, VECTORSTORE_K,
                       search_filter(user_profile, domaine), fault)}

\* _rh_tools_instance: Python None, or an RHTools holding its FAISS handle.
NoTools == [exists |-> FALSE, vectorstore |-> NoIndex]
RHTools(vs) == [exists |-> TRUE, vectorstore |-> vs]

\* get_rh_tools(): the instance (or the exception of RHTools()), the global
\* it leaves and the index file it leaves.
get_rh_tools(instance, file, src, fault) ==
    IF instance.exists
    THEN [res |-> Return(instance), instance |-> instance, file |-> file]
    ELSE LET got == get_vectorstore(file, src, FALSE, fault)
         IN IF got.res.raised
            THEN [res |-> got.res, instance |-> instance, file |-> got.file]
            ELSE [res |-> Return(RHTools(got.res.val)),
                  instance |-> RHTools(got.res.val), file |-> got.file]

\* search_rh_expert(query, user_profile, domaine): every outcome of one call,
\* as [res, searched, instance, file]: res is the returned string or the
\* exception that leaves the function.
search_rh_expert(instance, file, src, user_profile, domaine, initFault, fault) ==
    LET tools == get_rh_tools(instance, file, src, initFault)
    IN IF tools.res.raised
       THEN {[res |-> tools.res, searched |-> tools.res, ready |-> FALSE,
              instance |-> tools.instance, file |-> tools.file]}
       ELSE {[res |-> Return(out.text), searched |-> out.searched, ready |-> TRUE,
              instance |-> tools.instance, file |-> tools.file] :
                out \in search_rh_knowledge(tools.res.val.vectorstore,
                                            user_profile, domaine, fault)}

\* The outcome of a call, by the prefix of the text it returned.
Outcome(res) ==
    IF res.raised THEN "Raised"
    ELSE IF res.val # <<>> /\ res.val[1] = NOT_FOUND_PREFIX THEN "NotFound"
    ELSE IF res.val # <<>> /\ res.val[1] = TECH_PREFIX THEN "TechnicalError"
    ELSE "Found"

\* --------------------------------------------------------- agents/rh_agent
\* The sentence the system prompt prescribes for ERREUR_NOT_FOUND (also the
\* message of NoAnswerFoundError).
NOT_FOUND_SENTENCE ==
    <<Lit("Désolé, je ne peux pas répondre à cette question précisément avec les données actuelles. Veuillez contacter le service RH.")>>

\* The sentence of the except branch of RHAgent.invoke.
TECH_SENTENCE ==
    <<Lit("Je rencontre une difficulté technique. Veuillez réessayer ou contacter le service RH.")>>

\* The example of a request for the profile given in the system prompt.
CLARIFY ==
    <<Lit("Pour vous aider au mieux, pouvez-vous me préciser votre type de contrat ?")>>

\* A restatement of the question, and an HR answer, in the model's own words.
RESTATE == <<Lit("<reformulation de la question>")>>
ANSWER == <<Lit("<réponse RH rédigée par le modèle>")>>

\* Optional[str]
NoneStr == [some |-> FALSE, text |-> <<>>]
Some(text) == [some |-> TRUE, text |-> text]

\* "x or default" of Python on an optional string
OrElse(x, default) == IF x = None \/ x = "" THEN default ELSE x

\* A variant that puts every query on the thread "default".
config_thread_id_shared(query) == "default"

\* RHAgent.invoke: the thread of the default config.
config_thread_id(query) == OrElse(query.thread_id, "default")

\* RHAgent.invoke: the message handed to the agent.
user_message(query) ==
    IF query.user_profile # None
    THEN <<[tag |-> "[Profil: ]", profil |-> query.user_profile], Lit(query.query)>>
    ELSE <<Lit(query.query)>>

\* The content of the last message, as the model can shape it: a string, a
\* list of parts that are dicts with a 'text', or a list of plain strings.
StrContent(text) == [shape |-> "str", parts |-> <<text>>]
ListContent(texts) == [shape |-> "list", parts |-> texts]
BadListContent(texts) == [shape |-> "list_of_str", parts |-> texts]

\* RHAgent._extract_response
extract_response(content) ==
    IF content.shape = "list" /\ Len(content.parts) > 0
    THEN Return(content.parts[1])
    ELSE IF content.shape = "list_of_str" /\ Len(content.parts) > 0
    THEN Raise("AgentError")
    ELSE IF content.shape = "str" THEN Return(content.parts[1])
    ELSE Return(<<Lit("[]")>>)

AgentResponse(response, thread_id, sources_used, error) ==
    [response |-> response, thread_id |-> thread_id,
     sources_used |-> sources_used, error |-> error]

\* An except branch that lets the exception go on to the caller.
invoke_except_reraise(e, thread_id) == Raise(e)

\* An except branch that answers with the text of the exception.
invoke_except_leak(e, thread_id) ==
    Return(AgentResponse(<<StrExc(e)>>, thread_id, FALSE, Some(<<StrExc(e)>>)))

\* RHAgent.invoke, the except branch: what invoke does with exception e.
invoke_except(e, thread_id) ==
    Return(AgentResponse(TECH_SENTENCE, thread_id, FALSE, Some(<<StrExc(e)>>)))

\* RHAgent.invoke: the flag computed from the text of the response.
sources_used(response_content) == ~Contains(response_content, NOT_FOUND_PREFIX)

\* A return that names the thread "default" whatever the config holds.
invoke_return_default_thread(content, thread_id) ==
    LET extracted == extract_response(content)
    IN IF extracted.raised THEN invoke_except(extracted.exc, "default")
       ELSE Return(AgentResponse(extracted.val, "default",
                                 sources_used(extracted.val), NoneStr))

\* RHAgent.invoke, after agent_executor.invoke has returned content.
invoke_return(content, thread_id) ==
    LET extracted == extract_response(content)
    IN IF extracted.raised THEN invoke_except(extracted.exc, thread_id)
       ELSE Return(AgentResponse(extracted.val, thread_id,
                                 sources_used(extracted.val), NoneStr))

\* ------------------------------------------------------------------- state
VARIABLES
    source,       \* the knowledge table: [ok, rows]
    indexFile,    \* the persist directory: NoFile or save_local(index)
    rhTools,      \* tools._rh_tools_instance
    call,         \* the last call of search_rh_expert and what it yielded
    memory,       \* RHAgent.memory: thread id -> messages of the thread
    turn,         \* the call of RHAgent.invoke in progress
    resp,         \* what that call of invoke yielded
    accepted,     \* number of turns accepted so far
    csv,          \* the knowledge table file: [exists, columns, rows]
    loader,       \* an RHDataLoader: [data], data being self._data
    trace,        \* the last calls on the loader and what they yielded
    vs,           \* self.vectorstore of an RHVectorStore
    op,           \* the last call on that RHVectorStore and what it yielded
    procs,        \* the threads of the process: what each is calling, and where
    inits,        \* how many RHTools, RHAgent and indexes the process has made
    agentInstance,\* rh_agent._agent_instance: is it set
    inflight,     \* the calls of RHAgent.invoke in progress, by request
    service,      \* the API process: "starting", "ready" or "failed"
    known         \* the profile and the domain stated so far in the long thread

concVars == <<procs, inits, agentInstance, inflight, service, known>>
extVars == <<csv, loader, trace, vs, op, concVars>>
vars == <<source, indexFile, rhTools, call, memory, turn, resp, accepted, extVars>>
toolVars == <<source, indexFile, rhTools, call>>
convVars == <<memory, turn, resp, accepted>>

NoCall == [made |-> FALSE]
NoResponse == [raised |-> FALSE, pending |-> TRUE]
Idle == [pc |-> "idle"]

ThreadIds == {"default", "t1"}
ThreadInputs == {None, "t1"}

\* The pairs (profil, domaine) in a fixed order.
Rank(p, d) ==
    (IF p = "CDI" THEN 0 ELSE 2) + (IF d = "Congés" THEN 0 ELSE 1)

\* The knowledge tables of at most n valid rows, rows grouped by profile and
\* domain (the order of the rows of a table plays no part in a search).
Tables(n) ==
    UNION {{[i \in 1..m |-> Document(i, f[i][1], f[i][2])] :
              f \in {g \in [1..m -> ProfileType \X DomaineType] :
                       \A i \in 1..m, j \in 1..m :
                          i < j => Rank(g[i][1], g[i][2]) <= Rank(g[j][1], g[j][2])}} :
           m \in 0..n}

TypeCall(user_profile, domaine, fault, out) ==
    [made |-> TRUE, user_profile |-> user_profile, domaine |-> domaine,
     fault |-> out.ready /\ fault, res |-> out.res, searched |-> out.searched, ready |-> out.ready,
     indexed |-> out.instance.vectorstore.docs]

\* The process starts with the table as it is on disk and with the index
\* file absent or persisted by an earlier run.
InitStore(n) ==
    /\ source \in [ok : BOOLEAN, rows : Tables(n)]
    /\ indexFile \in {NoFile} \cup {save_local(Index(source.rows)) : x \in {r \in {1} : source.rows # <<>>}}
    /\ rhTools = NoTools
    /\ call = NoCall

NoLoad == [made |-> FALSE]
NoDocs == [made |-> FALSE]
NewLoader == [data |-> <<>>]
NoTrace == [last |-> NoLoad, prev |-> NoLoad, docs |-> NoDocs, held |-> <<>>, onLoader |-> FALSE]
AbsentCsv == [exists |-> FALSE, columns |-> {}, rows |-> <<>>]
NotSaved == [made |-> FALSE]
Threads == 1..MaxThreads
\* The calls of RHAgent.invoke that can be in progress at once.
Requests == {1, 2}
NotStarted == [pc |-> "start"]
NoInits == [tools |-> 0, agents |-> 0, indexes |-> 0]
NoRequest == [pc |-> "idle"]

NothingKnown == [profil |-> None, domaine |-> None]

\* The variables of the threads and of the requests at rest.
InitConc ==
    /\ procs = [t \in Threads |-> NotStarted]
    /\ inits = NoInits
    /\ agentInstance = FALSE
    /\ inflight = [r \in Requests |-> NoRequest]
    /\ service = "starting"
    /\ known = NothingKnown

NoOp == [kind |-> "none", saved |-> NotSaved, built |-> FALSE]

\* The loader-level variables at rest.
InitExt ==
    /\ csv = AbsentCsv
    /\ loader = NewLoader
    /\ trace = NoTrace
    /\ vs = NoIndex
    /\ op = NoOp
    /\ InitConc

InitConv ==
    /\ memory = [t \in ThreadIds |-> <<>>]
    /\ turn = Idle
    /\ resp = NoResponse
    /\ accepted = 0

\* The index is loaded or built, and so can fail to be, only in a call that
\* finds no instance of RHTools.
FirstUseFaults == IF rhTools.exists THEN {FALSE} ELSE BOOLEAN

\* --------------------------------------------------- tool-level operations
InitTool == InitStore(MaxDocs) /\ InitConv /\ InitExt

\* A caller invokes the tool search_rh_expert.
CallTool(q, p, d, initFault, fault) ==
    \E out \in search_rh_expert(rhTools, indexFile, source, p, d, initFault, fault) :
        /\ rhTools' = out.instance
        /\ indexFile' = out.file
        /\ call' = TypeCall(p, d, fault, out)
        /\ UNCHANGED <<source, memory, turn, resp, accepted, extVars>>

NextTool ==
    \E q \in Queries, p \in ProfileType, d \in DomaineType \cup {None},
       initFault \in FirstUseFaults, fault \in BOOLEAN :
        CallTool(q, p, d, initFault, fault)

SpecTool == InitTool /\ [][NextTool]_vars

\* ------------------------------------------------- conversation operations
\* The table of the conversation scenarios: two profiles, two domains, and a
\* pair (CDD, Paie) that no row covers.
ScenarioTable ==
    <<Document(1, "CDI", "Congés"), Document(2, "CDD", "Congés"),
      Document(3, "CDI", "Paie")>>

Init ==
    /\ source \in [ok : BOOLEAN, rows : {ScenarioTable}]
    /\ indexFile \in {NoFile, save_local(Index(source.rows))}
    /\ rhTools = NoTools
    /\ call = NoCall
    /\ InitConv
    /\ InitExt

UserQuery(q, p, d, t) ==
    [query |-> q, user_profile |-> p, domaine |-> d, thread_id |-> t]

Push(t, msg) == [memory EXCEPT ![t] = Append(@, msg)]

\* RHAgent.invoke(query) is entered: the config and the message are built
\* and the agent starts on the thread, whose history gets the message.
Invoke(q, p, d, t) ==
    /\ turn.pc = "idle"
    /\ accepted < MaxTurns
    /\ LET query == UserQuery(q, p, d, t)
           key == config_thread_id(query)
       IN /\ turn' = [pc |-> "model", query |-> query, thread_id |-> key,
                      nCalls |-> 0, exc |-> None]
          /\ memory' = Push(key, [role |-> "user", content |-> user_message(query)])
    /\ accepted' = accepted + 1
    /\ call' = NoCall
    /\ resp' = NoResponse
    /\ UNCHANGED <<source, indexFile, rhTools, extVars>>

\* The model asks for search_rh_expert with arguments of its choice and the
\* agent runs it: its string becomes a tool message for the model, its
\* exception leaves agent_executor.invoke.
ModelCallsTool(p, d, initFault, fault) ==
    /\ turn.pc = "model"
    /\ turn.nCalls < MaxToolCalls
    /\ \E out \in search_rh_expert(rhTools, indexFile, source, p, d, initFault, fault) :
        /\ rhTools' = out.instance
        /\ indexFile' = out.file
        /\ call' = TypeCall(p, d, fault, out)
        /\ IF out.res.raised
           THEN /\ resp' = invoke_except(out.res.exc, turn.thread_id)
                /\ turn' = [turn EXCEPT !.pc = "done", !.nCalls = @ + 1,
                                         !.exc = out.res.exc]
                /\ memory' = Push(turn.thread_id,
                                  [role |-> "ai", content |-> <<Lit("tool_call")>>])
           ELSE /\ turn' = [turn EXCEPT !.nCalls = @ + 1]
                /\ memory' = [memory EXCEPT ![turn.thread_id] =
                                 @ \o <<[role |-> "ai", content |-> <<Lit("tool_call")>>],
                                        [role |-> "tool", content |-> <<Lit("tool_result")>>]>>]
                /\ UNCHANGED resp
    /\ UNCHANGED <<source, accepted, extVars>>

\* The texts the model can end a turn with.
ModelTexts ==
    {CLARIFY, NOT_FOUND_SENTENCE, ANSWER}
    \cup (IF call.made /\ ~call.res.raised THEN {call.res.val} ELSE {})

ModelContents ==
    {StrContent(text) : text \in ModelTexts}
    \cup {ListContent(<<text>>) : text \in ModelTexts}
    \cup {BadListContent(<<text>>) : text \in {ANSWER}}

\* The model ends the turn with a message; invoke extracts the response.
ModelAnswers(content) ==
    /\ turn.pc = "model"
    /\ memory' = Push(turn.thread_id, [role |-> "ai", content |-> <<Lit("final")>>])
    /\ resp' = invoke_return(content, turn.thread_id)
    /\ turn' = [turn EXCEPT !.pc = "done",
                             !.exc = IF extract_response(content).raised
                                     THEN extract_response(content).exc ELSE None]
    /\ UNCHANGED <<source, indexFile, rhTools, call, accepted, extVars>>

\* The call of the model fails; agent_executor.invoke raises.
ModelFails ==
    /\ turn.pc = "model"
    /\ resp' = invoke_except("LLMError", turn.thread_id)
    /\ turn' = [turn EXCEPT !.pc = "done", !.exc = "LLMError"]
    /\ UNCHANGED <<source, indexFile, rhTools, call, memory, accepted, extVars>>

\* invoke has returned: the caller takes the AgentResponse.
Finish ==
    /\ turn.pc = "done"
    /\ turn' = Idle
    /\ call' = NoCall
    /\ resp' = NoResponse
    /\ UNCHANGED <<source, indexFile, rhTools, memory, accepted, extVars>>

Next ==
    \/ \E q \in Queries, p \in ProfileType, d \in DomaineType \cup {None},
          t \in ThreadInputs : Invoke(q, p, d, t)
    \/ \E p \in ProfileType, d \in DomaineType \cup {None},
          initFault \in FirstUseFaults, fault \in BOOLEAN :
              ModelCallsTool(p, d, initFault, fault)
    \/ \E content \in ModelContents : ModelAnswers(content)
    \/ ModelFails
    \/ Finish

Spec == Init /\ [][Next]_vars

\* ------------------------------------------------------ loader operations
\* Texts of the cells of the table.
OkQuestion == <<"C", "o", "n", "g", "é", "s", " ", "?">>
BlankQuestion == <<Sp, Sp>>
OkReponse == <<"2", "5", " ", "j", "o", "u", "r", "s", " ", "o", "u", "v", "r", "é", "s">>
ShortReponse == <<"2", "5", " ", "j", "o", "u", "r", "s">>
PaddedCDD == <<Sp, "C", "D", "D", Sp>>
OtherProfil == <<"A", "u", "t", "r", "e">>
OtherDomaine == <<"S", "p", "o", "r", "t">>

RawRow(id, p, d, q, r) ==
    [question_id |-> id, profil |-> p, domaine |-> d, question |-> q, reponse |-> r]

\* A row that passes validation and a row that does not, both without id.
GoodRow == RawRow(NaN, Spell("CDI"), Spell("Congés"), OkQuestion, OkReponse)
BadRow == RawRow(NaN, OtherProfil, Spell("Congés"), OkQuestion, OkReponse)

\* Rows that differ in the id cell, the profile, the domain and the texts.
DetailRows ==
    {RawRow(id, c[1], c[2], t[1], t[2]) :
        id \in {NaN, IntId(0), IntId(2), TextId},
        c \in {<<PaddedCDD, Spell("Congés")>>, <<OtherProfil, Spell("Congés")>>,
               <<PaddedCDD, OtherDomaine>>},
        t \in {<<OkQuestion, OkReponse>>, <<BlankQuestion, OkReponse>>,
               <<OkQuestion, ShortReponse>>}}

\* The sequences of at most n members of S.
SeqsUpTo(S, n) == UNION {[1..m -> S] : m \in 0..n}

OkCsv(rows) == [exists |-> TRUE, columns |-> required_columns, rows |-> rows]

\* The files the loader is started on: absent, without any column (no
\* byte), without one required column, and well-formed with rows.
Csvs ==
    {AbsentCsv,
     [exists |-> TRUE, columns |-> {}, rows |-> <<>>],
     [exists |-> TRUE, columns |-> required_columns \ {"reponse"}, rows |-> <<GoodRow>>]}
    \cup {OkCsv(rows) : rows \in {t \in SeqsUpTo({GoodRow, BadRow}, MaxRows) :
              Cardinality({i \in DOMAIN t : t[i] = BadRow}) <= MaxBadRows}}
    \cup {OkCsv(rows) : rows \in SeqsUpTo(DetailRows, MaxDetailRows)}

InitData ==
    /\ csv \in Csvs
    /\ loader = NewLoader
    /\ trace = NoTrace
    /\ vs = NoIndex
    /\ op = NoOp
    /\ InitConc
    /\ source = [ok |-> FALSE, rows |-> <<>>]
    /\ indexFile = NoFile
    /\ rhTools = NoTools
    /\ call = NoCall
    /\ InitConv

\* loader.load_csv()
LoadCsv ==
    LET out == load_csv(csv)
    IN /\ loader' = [data |-> data_after_load(loader.data, out.res)]
       /\ trace' = [last |-> [made |-> TRUE, res |-> out.res, errors |-> out.errors],
                    prev |-> trace.last, docs |-> NoDocs,
                    held |-> loader.data, onLoader |-> TRUE]
       /\ UNCHANGED <<csv, vs, op, concVars, source, indexFile, rhTools, call, memory, turn, resp, accepted>>

\* loader = RHDataLoader()
FreshLoader ==
    /\ loader' = NewLoader
    /\ trace' = [trace EXCEPT !.docs = NoDocs, !.held = <<>>, !.onLoader = FALSE]
    /\ UNCHANGED <<csv, vs, op, concVars, source, indexFile, rhTools, call, memory, turn, resp, accepted>>

\* loader.to_documents()
ToDocuments ==
    /\ trace' = [trace EXCEPT !.docs = [made |-> TRUE, res |-> to_documents(loader.data),
                                        data |-> loader.data]]
    /\ UNCHANGED <<csv, loader, vs, op, concVars, source, indexFile, rhTools, call, memory, turn, resp, accepted>>

NextData == LoadCsv \/ FreshLoader \/ ToDocuments

SpecData == InitData /\ [][NextData]_vars

\* ------------------------------------------------- vector store operations
\* The process starts on any table, with the persist directory empty or
\* holding the artifacts of an index built from some table, the current one
\* or an older one.
InitVectorStore ==
    /\ source \in [ok : BOOLEAN, rows : Tables(MaxStoreDocs)]
    /\ indexFile \in {NoFile}
                      \cup {save_local(Index(t)) : t \in Tables(MaxStoreDocs) \ {<<>>}}
    /\ vs = NoIndex
    /\ op = NoOp
    /\ rhTools = NoTools
    /\ call = NoCall
    /\ csv = AbsentCsv
    /\ loader = NewLoader
    /\ trace = NoTrace
    /\ InitConc
    /\ InitConv

otherVars ==
    <<source, rhTools, call, memory, turn, resp, accepted, csv, loader, trace, concVars>>

\* The index whose artifacts the directory holds after a call that saved.
Saved(ix) == [made |-> TRUE, index |-> ix]

\* vs.get_or_create(force_recreate)
GetOrCreate(force_recreate, fault) ==
    LET out == get_or_create(indexFile, source, force_recreate, fault)
    IN /\ vs' = IF out.res.raised THEN vs ELSE out.res.val
       /\ indexFile' = out.file
       /\ op' = [kind |-> "get_or_create", force |-> force_recreate,
                 before |-> indexFile, res |-> out.res, did |-> out.did,
                 saved |-> IF out.did = "create" /\ ~out.res.raised
                           THEN Saved(out.res.val) ELSE op.saved,
                 built |-> (op.built \/ ~out.res.raised)]
       /\ UNCHANGED otherVars

\* vs.create_from_documents(documents, save) on the documents of the table
CreateFromDocuments(doSave, fault, saveFault) ==
    /\ ~load_documents(source).raised
    /\ LET out == create_from_documents(vs, indexFile, load_documents(source).val,
                                        doSave, fault, saveFault)
       IN /\ vs' = out.vs
          /\ indexFile' = out.file
          /\ op' = [kind |-> "create", res |-> out.res, embedded |-> ~fault,
                    saved |-> IF doSave /\ ~out.res.raised
                              THEN Saved(out.res.val) ELSE op.saved,
                    built |-> (op.built \/ ~out.res.raised)]
    /\ UNCHANGED otherVars

\* vs.save()
Save(fault) ==
    LET out == save(vs, indexFile, fault)
    IN /\ indexFile' = out.file
       /\ op' = [kind |-> "save", res |-> out.res,
                 saved |-> IF out.res.raised THEN op.saved ELSE Saved(vs),
                 built |-> op.built]
       /\ UNCHANGED <<vs, otherVars>>

\* vs.load()
Load(fault) ==
    LET out == load(indexFile, fault)
    IN /\ vs' = IF out.raised THEN vs ELSE out.val
       /\ op' = [kind |-> "load", res |-> out, saved |-> op.saved,
                 built |-> (op.built \/ ~out.raised)]
       /\ UNCHANGED <<indexFile, otherVars>>

\* vs.delete()
Delete ==
    LET out == delete(vs, indexFile)
    IN /\ indexFile' = out.file
       /\ vs' = out.vs
       /\ op' = [kind |-> "delete", saved |-> NotSaved, built |-> op.built]
       /\ UNCHANGED otherVars

\* vs = RHVectorStore(): the directory is made if it is not there.
NewVectorStore ==
    /\ vs' = NoIndex
    /\ indexFile' = mkdir(indexFile)
    /\ op' = [kind |-> "new", saved |-> op.saved, built |-> FALSE]
    /\ UNCHANGED otherVars

\* vs.search(query, k, filter_dict)
Search(k, filter_dict, fault) ==
    /\ \E res \in search(vs, k, filter_dict, fault) :
          op' = [kind |-> "search", res |-> res, ready |-> vs.exists, fault |-> fault,
                 k |-> k, filter |-> filter_dict, saved |-> op.saved, built |-> op.built]
    /\ UNCHANGED <<vs, indexFile, otherVars>>

\* The filter of the searches made on the store.
SearchFilters == {[profil |-> "CDI"]}

NextVectorStore ==
    \/ \E force_recreate \in BOOLEAN, fault \in BOOLEAN : GetOrCreate(force_recreate, fault)
    \/ \E doSave \in BOOLEAN, fault \in BOOLEAN, saveFault \in BOOLEAN :
          CreateFromDocuments(doSave, fault, saveFault)
    \/ \E fault \in BOOLEAN : Save(fault)
    \/ \E fault \in BOOLEAN : Load(fault)
    \/ Delete
    \/ NewVectorStore
    \/ \E k \in {1, VECTORSTORE_K}, filter_dict \in SearchFilters, fault \in BOOLEAN :
          Search(k, filter_dict, fault)

SpecVectorStore == InitVectorStore /\ [][NextVectorStore]_vars

\* ------------------------------------- the index built from the table file
\* The table files of a build: absent, without a required column, without a
\* row, valid, half invalid, and of eleven rows with one invalid.
BuildCsvs ==
    {AbsentCsv,
     [exists |-> TRUE, columns |-> required_columns \ {"reponse"}, rows |-> <<GoodRow>>],
     OkCsv(<<>>), OkCsv(<<GoodRow>>), OkCsv(<<GoodRow, BadRow>>),
     OkCsv(<<BadRow, GoodRow, BadRow, GoodRow>>),
     OkCsv([i \in 1..11 |-> IF i = 3 THEN BadRow ELSE GoodRow])}

\* The documents of a table file that loads.
DocsOf(c) == load_then_to_documents(c).val

InitBuild ==
    /\ csv \in BuildCsvs
    /\ indexFile \in {NoFile, save_local(Index(DocsOf(OkCsv(<<GoodRow>>)))),
                      save_local(Index(DocsOf(OkCsv(<<GoodRow, GoodRow>>))))}
    /\ vs = NoIndex
    /\ op = NoOp
    /\ source = [ok |-> FALSE, rows |-> <<>>]
    /\ rhTools = NoTools
    /\ call = NoCall
    /\ loader = NewLoader
    /\ trace = NoTrace
    /\ InitConc
    /\ InitConv

buildFrame == <<source, rhTools, call, memory, turn, resp, accepted, loader, trace, concVars>>

\* vs.get_or_create(force_recreate), the table being the file csv
GetOrCreateFromCsv(force_recreate, fault) ==
    LET out == get_or_create_from_csv(vs, indexFile, csv, force_recreate, fault)
    IN /\ vs' = out.vs
       /\ indexFile' = out.file
       /\ op' = [kind |-> "get_or_create", force |-> force_recreate,
                 before |-> indexFile, held |-> vs, table |-> csv,
                 res |-> out.res, did |-> out.did, saved |-> op.saved, built |-> (op.built \/ ~out.res.raised)]
       /\ UNCHANGED <<csv, buildFrame>>

\* The table file is replaced on the disk.
ReplaceCsv(c) ==
    /\ csv' = c
    /\ UNCHANGED <<vs, indexFile, op, buildFrame>>

\* vs = RHVectorStore()
NewStore ==
    /\ vs' = NoIndex
    /\ indexFile' = mkdir(indexFile)
    /\ op' = [kind |-> "new", saved |-> op.saved, built |-> FALSE]
    /\ UNCHANGED <<csv, buildFrame>>

\* vs.delete()
DeleteStore ==
    LET out == delete(vs, indexFile)
    IN /\ indexFile' = out.file
       /\ vs' = out.vs
       /\ op' = [kind |-> "delete", saved |-> NotSaved, built |-> op.built]
       /\ UNCHANGED <<csv, buildFrame>>

NextBuild ==
    \/ \E force_recreate \in BOOLEAN, fault \in BOOLEAN :
          GetOrCreateFromCsv(force_recreate, fault)
    \/ \E c \in BuildCsvs : ReplaceCsv(c)
    \/ NewStore
    \/ DeleteStore

SpecBuild == InitBuild /\ [][NextBuild]_vars

\* ----------------------------------------- loads of a table that changes
InitReload ==
    /\ csv \in BuildCsvs
    /\ loader = NewLoader
    /\ trace = NoTrace
    /\ vs = NoIndex
    /\ op = NoOp
    /\ InitConc
    /\ source = [ok |-> FALSE, rows |-> <<>>]
    /\ indexFile = NoFile
    /\ rhTools = NoTools
    /\ call = NoCall
    /\ InitConv

NextReload ==
    \/ LoadCsv
    \/ FreshLoader
    \/ ToDocuments
    \/ \E c \in BuildCsvs : ReplaceCsv(c)

SpecReload == InitReload /\ [][NextReload]_vars

\* ------------------------------------------ first uses by several threads
InitFirstUse ==
    /\ InitStore(MaxStoreDocs)
    /\ InitConv
    /\ csv = AbsentCsv
    /\ loader = NewLoader
    /\ trace = NoTrace
    /\ vs = NoIndex
    /\ op = NoOp
    /\ InitConc

firstUseFrame ==
    <<source, call, memory, turn, resp, accepted, csv, loader, trace, vs, op, inflight,
      service, known>>

\* Thread t enters get_rh_tools() and evaluates "_rh_tools_instance is None".
ToolsCheck(t) ==
    /\ procs[t].pc = "start"
    /\ procs' = [procs EXCEPT ![t] =
                    IF rhTools.exists
                    THEN [pc |-> "done", entry |-> "get_rh_tools", got |-> Return(rhTools)]
                    ELSE [pc |-> "init", entry |-> "get_rh_tools"]]
    /\ UNCHANGED <<rhTools, indexFile, inits, agentInstance, firstUseFrame>>

\* Thread t, having read None, runs "_rh_tools_instance = RHTools()": the
\* index is loaded or built, then the global is assigned.
ToolsInit(t, fault) ==
    /\ procs[t].pc = "init" /\ procs[t].entry = "get_rh_tools"
    /\ LET got == get_vectorstore(indexFile, source, FALSE, fault)
       IN /\ indexFile' = got.file
          /\ inits' = [inits EXCEPT !.indexes = IF got.res.raised THEN @ ELSE @ + 1,
                                    !.tools = IF got.res.raised THEN @ ELSE @ + 1]
          /\ rhTools' = IF got.res.raised THEN rhTools ELSE RHTools(got.res.val)
          /\ procs' = [procs EXCEPT ![t] =
                          [pc |-> "done", entry |-> "get_rh_tools",
                           got |-> IF got.res.raised THEN got.res
                                   ELSE Return(RHTools(got.res.val))]]
    /\ UNCHANGED <<agentInstance, firstUseFrame>>

\* Thread t enters get_rh_agent() and evaluates "_agent_instance is None".
AgentCheck(t) ==
    /\ procs[t].pc = "start"
    /\ procs' = [procs EXCEPT ![t] =
                    IF agentInstance
                    THEN [pc |-> "done", entry |-> "get_rh_agent", got |-> Return(None)]
                    ELSE [pc |-> "init", entry |-> "get_rh_agent"]]
    /\ UNCHANGED <<rhTools, indexFile, inits, agentInstance, firstUseFrame>>

\* Thread t, having read None, runs "_agent_instance = RHAgent()".
AgentInit(t, fault) ==
    /\ procs[t].pc = "init" /\ procs[t].entry = "get_rh_agent"
    /\ inits' = [inits EXCEPT !.agents = IF fault THEN @ ELSE @ + 1]
    /\ agentInstance' = (agentInstance \/ ~fault)
    /\ procs' = [procs EXCEPT ![t] =
                    [pc |-> "done", entry |-> "get_rh_agent",
                     got |-> IF fault THEN Raise("AgentError") ELSE Return(None)]]
    /\ UNCHANGED <<rhTools, indexFile, firstUseFrame>>

\* Thread t calls get_vectorstore(): a new RHVectorStore loads or builds.
GetVectorstore(t, fault) ==
    /\ procs[t].pc = "start"
    /\ LET got == get_vectorstore(indexFile, source, FALSE, fault)
       IN /\ indexFile' = got.file
          /\ inits' = [inits EXCEPT !.indexes = IF got.res.raised THEN @ ELSE @ + 1]
          /\ procs' = [procs EXCEPT ![t] =
                          [pc |-> "done", entry |-> "get_vectorstore", got |-> got.res]]
    /\ UNCHANGED <<rhTools, agentInstance, firstUseFrame>>

NextFirstUse ==
    \E t \in Threads :
        \/ ToolsCheck(t)
        \/ \E fault \in BOOLEAN : ToolsInit(t, fault)
        \/ AgentCheck(t)
        \/ \E fault \in BOOLEAN : AgentInit(t, fault)
        \/ \E fault \in BOOLEAN : GetVectorstore(t, fault)

SpecFirstUse == InitFirstUse /\ [][NextFirstUse]_vars

\* ----------------------------------------------------------------- claims
\* The filter of the last call, as the claims read it.
CallFilter == search_filter(call.user_profile, call.domaine)
Searched == call.made /\ ~call.searched.raised

\* C1: every document a call of search_rh_knowledge(query, P, D) gets from
\* the search is one of the indexed documents, has profil = P and, when D is
\* supplied, domaine = D, and at most VECTORSTORE_K documents are returned.
C1_HardMetadataFilter ==
    Searched =>
        LET docs == call.searched.val
        IN /\ Len(docs) <= VECTORSTORE_K
           /\ \A i \in DOMAIN docs :
                /\ docs[i] \in Range(call.indexed)
                /\ docs[i].profil = call.user_profile
                /\ call.domaine \in DomaineType => docs[i].domaine = call.domaine

\* A search with a domain returned documents while the index also holds a
\* document of another profile and one of the same profile and another domain.
C1_Witness ==
    /\ Searched
    /\ call.domaine \in DomaineType
    /\ Len(call.searched.val) >= 2
    /\ \E i \in DOMAIN call.indexed : call.indexed[i].profil # call.user_profile
    /\ \E i \in DOMAIN call.indexed :
          /\ call.indexed[i].profil = call.user_profile
          /\ call.indexed[i].domaine # call.domaine

\* C4: no call of search_rh_expert raises: every call returns a string.
C4_ToolNeverRaises == call.made => ~call.res.raised

\* C5: when the filter matches no indexed document (the index being loaded
\* and the search backend not failing), search returns the empty sequence
\* without raising and the tool returns the NotFound text, not TechnicalError.
C5_EmptyIsNotFound ==
    (/\ call.made /\ call.ready /\ ~call.fault
     /\ Matching(call.indexed, CallFilter) = {})
    => /\ call.searched = Return(<<>>)
       /\ call.res = Return(NotFoundText)
       /\ Outcome(call.res) = "NotFound"

\* A call whose filter matches nothing although the index holds documents of
\* the profile asked for.
C5_Witness ==
    /\ call.made /\ call.ready /\ ~call.fault
    /\ Matching(call.indexed, CallFilter) = {}
    /\ \E i \in DOMAIN call.indexed : call.indexed[i].profil = call.user_profile
    /\ Outcome(call.res) = "NotFound"

\* ---- conversation claims
Done == turn.pc = "done"
Returned == Done /\ ~resp.raised
\* The retrieval outcome of the turn: that of its last tool call.
TurnOutcome == IF call.made THEN Outcome(call.res) ELSE "NoCall"
HasExcText(text) == \E i \in DOMAIN text : "exc" \in DOMAIN text[i]
UserMsgs(t) == {i \in DOMAIN memory[t] : memory[t][i].role = "user"}
CarriesProfile(msg) == \E i \in DOMAIN msg.content : "profil" \in DOMAIN msg.content[i]
\* An earlier turn of thread t ended in an exception: its user message is not
\* followed by a final message of the model.
FailedEarlier(t) ==
    \E i \in UserMsgs(t) :
        /\ i > 1
        /\ memory[t][i - 1] # [role |-> "ai", content |-> <<Lit("final")>>]

\* C2: a turn of a thread in which no profile is known ends in a request for
\* the profile and makes no retrieval call; a later turn of the same thread
\* that supplies the profile makes exactly one retrieval call and does not
\* ask for the profile again.
C2_ClarifyThenOneRetrieval ==
    /\ (/\ turn.pc # "idle"
        /\ \A i \in UserMsgs(turn.thread_id) :
              ~CarriesProfile(memory[turn.thread_id][i]))
       => /\ turn.nCalls = 0
          /\ Returned => resp.val.response = CLARIFY
    /\ (/\ Done /\ turn.exc = None
        /\ Cardinality(UserMsgs(turn.thread_id)) >= 2
        /\ turn.query.user_profile \in ProfileType)
       => /\ turn.nCalls = 1
          /\ Returned /\ resp.val.response # CLARIFY

\* C3: a turn that made no tool call ends only in a request for
\* clarification, a restatement or one of the two fixed sentences.
C3_NoAnswerWithoutTool ==
    (Done /\ turn.nCalls = 0)
    => /\ Returned
       /\ resp.val.response \in {CLARIFY, RESTATE, NOT_FOUND_SENTENCE, TECH_SENTENCE}

\* C6: sources_used of the returned AgentResponse is false if and only if the
\* retrieval outcome of the turn was NotFound.
C6_SourcesUsedIffNotNotFound ==
    Returned => (resp.val.sources_used = FALSE <=> TurnOutcome = "NotFound")

\* C7: when the retrieval outcome of the turn is NotFound, the response is
\* exactly the fixed redirection sentence.
C7_NotFoundSentenceVerbatim ==
    (Done /\ turn.exc = None /\ TurnOutcome = "NotFound")
    => /\ Returned
       /\ resp.val.response = NOT_FOUND_SENTENCE

Failure == turn.exc # None \/ TurnOutcome \in {"NotFound", "TechnicalError"}

C10_DomainForwarded ==
    (turn.pc # "idle" /\ turn.query.domaine \in DomaineType)
    => /\ \E i \in DOMAIN user_message(turn.query) :
             /\ "domaine" \in DOMAIN user_message(turn.query)[i]
             /\ user_message(turn.query)[i].domaine = turn.query.domaine
       /\ call.made => /\ call.user_profile = turn.query.user_profile
                       /\ call.domaine = turn.query.domaine

\* ---- loader claims
Loaded == trace.last.made
LoadedOk == trace.last.made /\ ~trace.last.res.raised
\* The file is there and has every required column.
WellFormed == csv.exists /\ required_columns \subseteq csv.columns
\* Positions of the rows that validation rejects.
Rejected == {i \in DOMAIN csv.rows : validate_row(csv.rows[i], i).raised}
\* C11: on a well-formed file, load_csv fails with InvalidDataFormatError
\* exactly when the rejected rows are more than a tenth of the rows;
\* otherwise it returns the rows that passed, in the order of the table, and
\* the rejected rows are only reported.
C11_TenPercentThreshold ==
    (Loaded /\ WellFormed)
    => LET n == Len(csv.rows)
           r == Cardinality(Rejected)
           kept == InOrder(DOMAIN csv.rows \ Rejected)
       IN IF r * 10 > n
          THEN trace.last.res = Raise("InvalidDataFormatError")
          ELSE /\ trace.last.res =
                    Return([k \in 1..(n - r) |-> validate_row(csv.rows[kept[k]], kept[k]).val])
               /\ Len(trace.last.errors) = r
               /\ \A i \in Rejected : \E e \in DOMAIN trace.last.errors :
                      trace.last.errors[e].ligne = i + 1

\* A table of ten rows with exactly one rejected row has been loaded.
C11_Witness ==
    /\ LoadedOk /\ WellFormed
    /\ Len(csv.rows) = 10
    /\ Cardinality(Rejected) = 1
    /\ Len(trace.last.res.val) = 9
    /\ Len(trace.last.errors) = 1

\* C12: load_csv raises CSVLoadError on an absent file, raises on a table
\* without data rows, and raises InvalidDataFormatError on a table that
\* lacks a required column; in none of the three it returns records.
C12_StructuralErrors ==
    Loaded
    => /\ ~csv.exists => trace.last.res = Raise("CSVLoadError")
       /\ (csv.exists /\ csv.rows = <<>>) => trace.last.res.raised
       /\ (csv.exists /\ csv.columns # {} /\ required_columns \ csv.columns # {})
          => trace.last.res = Raise("InvalidDataFormatError")

\* The four conditions of the record invariant on a row: profile and domain
\* in the closed sets, question and answer not empty, all after trimming.
MeetsRecordInvariant(row) ==
    /\ Literal(ProfileType, strip(row.profil)) # {}
    /\ Literal(DomaineType, strip(row.domaine)) # {}
    /\ strip(row.question) # <<>>
    /\ strip(row.reponse) # <<>>

\* C13: validation accepts a row if and only if the row meets the four
\* conditions of the record invariant.
C13_RowAcceptedIffInvariant ==
    (Loaded /\ WellFormed)
    => \A i \in DOMAIN csv.rows :
          ~validate_row(csv.rows[i], i).raised <=> MeetsRecordInvariant(csv.rows[i])

\* C14: after a successful load no two records have the same question_id.
C14_UniqueIds ==
    LoadedOk
    => \A i, j \in DOMAIN trace.last.res.val :
          i # j => trace.last.res.val[i].question_id # trace.last.res.val[j].question_id

\* C15: two loads of the same table, on the same loader or on a fresh one,
\* yield the same result, and the loader holds the records of the last
\* load, not more.
C15_LoadIdempotent ==
    /\ (trace.last.made /\ trace.prev.made) => trace.last = trace.prev
    /\ LoadedOk => Len(loader.data) <= Len(trace.last.res.val)
    /\ (LoadedOk /\ loader.data # <<>>) => loader.data = trace.last.res.val

\* A table of ten rows or more, one of them rejected, has been loaded twice
\* with success.
C15_Witness ==
    /\ trace.prev.made /\ LoadedOk
    /\ Len(loader.data) >= 9
    /\ Rejected # {}

\* C16: to_documents returns one document per record of the loader, in the
\* order of the records, each with the metadata and the text of its record
\* (it raises DataError when the loader holds no record), and leaves the
\* records as they were.
C16_ToDocumentsOneToOne ==
    trace.docs.made
    => /\ loader.data = trace.docs.data
       /\ IF trace.docs.data = <<>>
          THEN trace.docs.res = Raise("DataError")
          ELSE /\ ~trace.docs.res.raised
               /\ Len(trace.docs.res.val) = Len(trace.docs.data)
               /\ \A i \in DOMAIN trace.docs.data :
                    LET doc == trace.docs.res.val[i]
                        item == trace.docs.data[i]
                    IN /\ doc.profil = item.profil
                       /\ doc.domaine = item.domaine
                       /\ doc.question_id = item.question_id
                       /\ doc.page_content =
                            <<"Question: ", item.question, "\nRéponse: ", item.reponse>>

\* The documents of two records that have the same question_id.
C16_Witness ==
    /\ trace.docs.made /\ ~trace.docs.res.raised
    /\ Len(trace.docs.res.val) = 2
    /\ trace.docs.data[1].question_id = trace.docs.data[2].question_id

\* ---- vector store claims
Filters ==
    {[profil |-> p] : p \in ProfileType}
    \cup {[profil |-> p, domaine |-> d] : p \in ProfileType, d \in DomaineType}

\* C17: get_or_create restores the persisted index if and only if the
\* artifact exists and force_recreate is false; otherwise it rebuilds from
\* the current table and persists; after a successful return the store is
\* ready and the artifact exists.
C17_RestoreIffPresentAndNotForced ==
    op.kind = "get_or_create"
    => /\ op.did = "load" <=> (op.before.exists /\ ~op.force)
       /\ (op.did = "load" /\ ~op.res.raised)
          => /\ op.res.val.docs = op.before.pkl
             /\ op.res.val.vectors = op.before.faiss
             /\ indexFile = op.before
       /\ (op.did = "create" /\ ~op.res.raised)
          => /\ op.res.val.docs = source.rows
             /\ indexFile.exists /\ indexFile.pkl = source.rows
       /\ ~op.res.raised
          => /\ vs.exists /\ vs = op.res.val
             /\ indexFile.exists

\* A forced call has rebuilt from the table while the directory held the
\* artifacts of an index of another table.
C17_Witness ==
    /\ op.kind = "get_or_create" /\ op.force /\ ~op.res.raised
    /\ op.before.exists /\ op.before.pkl # source.rows
    /\ indexFile.pkl = source.rows

\* A restore has succeeded on artifacts written by a save of this process.
Restored ==
    /\ \/ op.kind = "load"
       \/ op.kind = "get_or_create" /\ op.did = "load"
    /\ ~op.res.raised
    /\ op.saved.made

CallerThreadIds == ThreadInputs \cup {"", "default"}

\* InMemorySaver: the checkpoint of a thread is read at the start of a run
\* and written after each step of it, under the thread_id of the config.
checkpoint_get(saver, thread_id) == saver[thread_id]
checkpoint_put(saver, thread_id, messages) == [saver EXCEPT ![thread_id] = messages]

threadsFrame ==
    <<source, call, turn, resp, csv, loader, trace, vs, op, procs, inits, agentInstance,
      service, known>>

\* Request r enters RHAgent.invoke(query): the config is built, the run
\* starts from the checkpoint of its thread and records the user message.
\* A call in progress is numbered by the lowest number that is free.
BeginTurn(r, q, p, d, t) ==
    /\ inflight[r].pc = "idle"
    /\ \A r2 \in Requests : r2 < r => inflight[r2].pc # "idle"
    /\ accepted < MaxTurns
    /\ LET query == UserQuery(q, p, d, t)
           key == config_thread_id(query)
           messages == Append(checkpoint_get(memory, key),
                              [role |-> "user", content |-> user_message(query)])
       IN /\ inflight' = [inflight EXCEPT ![r] =
                             [pc |-> "model", query |-> query, thread_id |-> key,
                              messages |-> messages, nCalls |-> 0,
                              resp |-> NoResponse]]
          /\ memory' = checkpoint_put(memory, key, messages)
    /\ accepted' = accepted + 1
    /\ UNCHANGED <<indexFile, rhTools, threadsFrame>>

\* The model of request r asks for search_rh_expert and the agent runs it.
TurnCallsTool(r, p, d, initFault, fault) ==
    /\ inflight[r].pc = "model"
    /\ inflight[r].nCalls < MaxToolCalls
    /\ \E out \in search_rh_expert(rhTools, indexFile, source, p, d, initFault, fault) :
        LET asked == Append(inflight[r].messages,
                            [role |-> "ai", content |-> <<Lit("tool_call")>>])
            messages == IF out.res.raised THEN asked
                        ELSE Append(asked, [role |-> "tool", content |-> <<Lit("tool_result")>>])
        IN /\ rhTools' = out.instance
           /\ indexFile' = out.file
           /\ memory' = checkpoint_put(memory, inflight[r].thread_id, messages)
           /\ inflight' = [inflight EXCEPT ![r] =
                  [@ EXCEPT !.messages = messages, !.nCalls = @ + 1,
                            !.pc = IF out.res.raised THEN "done" ELSE "model",
                            !.resp = IF out.res.raised
                                     THEN invoke_except(out.res.exc, inflight[r].thread_id)
                                     ELSE NoResponse]]
    /\ UNCHANGED <<accepted, threadsFrame>>

\* The model of request r ends the turn with a message.
TurnAnswers(r, content) ==
    /\ inflight[r].pc = "model"
    /\ LET messages == Append(inflight[r].messages,
                              [role |-> "ai", content |-> <<Lit("final")>>])
       IN /\ memory' = checkpoint_put(memory, inflight[r].thread_id, messages)
          /\ inflight' = [inflight EXCEPT ![r] =
                 [@ EXCEPT !.messages = messages, !.pc = "done",
                           !.resp = invoke_return(content, inflight[r].thread_id)]]
    /\ UNCHANGED <<indexFile, rhTools, accepted, threadsFrame>>

\* The call of the model of request r fails.
TurnFails(r) ==
    /\ inflight[r].pc = "model"
    /\ inflight' = [inflight EXCEPT ![r] =
           [@ EXCEPT !.pc = "done",
                     !.resp = invoke_except("LLMError", inflight[r].thread_id)]]
    /\ UNCHANGED <<indexFile, rhTools, memory, accepted, threadsFrame>>

\* invoke of request r has returned.
EndTurn(r) ==
    /\ inflight[r].pc = "done"
    /\ inflight' = [inflight EXCEPT ![r] = NoRequest]
    /\ UNCHANGED <<indexFile, rhTools, memory, accepted, threadsFrame>>

NextThreads ==
    \E r \in Requests :
        \/ \E q \in Queries, t \in CallerThreadIds : BeginTurn(r, q, "CDI", None, t)
        \/ \E initFault \in FirstUseFaults, fault \in BOOLEAN :
              TurnCallsTool(r, "CDI", None, initFault, fault)
        \/ TurnAnswers(r, StrContent(ANSWER))
        \/ TurnFails(r)
        \/ EndTurn(r)

SpecThreads == Init /\ [][NextThreads]_vars

\* ------------------------------------------------------ history compaction
\* A message of the long thread: its role, the profile tag and the domain
\* its text states (None when it states none), and its size in tokens.
Message(role, profil, domaine, tokens) ==
    [role |-> role, profil |-> profil, domaine |-> domaine, tokens |-> tokens]

RECURSIVE TokensOf(_)
TokensOf(h) == IF h = <<>> THEN 0 ELSE Head(h).tokens + TokensOf(Tail(h))

\* The facts a summary of the messages h can state: for each of profile and
\* domain, one that h states, or none; the summarisation model chooses.
SummaryFacts(h) ==
    [profil : {None} \cup {h[i].profil : i \in DOMAIN h},
     domaine : {None} \cup {h[i].domaine : i \in DOMAIN h}]

\* SummarizationMiddleware(trigger=("tokens", ...), keep=("messages", ...))
\* before a call of the model: the histories it can leave.
summarize(h) ==
    IF TokensOf(h) >= AGENT_SUMMARY_TRIGGER_TOKENS /\ Len(h) > AGENT_KEEP_MESSAGES
    THEN LET cut == Len(h) - AGENT_KEEP_MESSAGES
         IN {<<Message("summary", f.profil, f.domaine, 100)>> \o SubSeq(h, cut + 1, Len(h)) :
                f \in SummaryFacts(SubSeq(h, 1, cut))}
    ELSE {h}

LongThread == "default"

\* A whole turn of the long thread that needs no retrieval: the user message
\* (with the profile of the request, and stating the domain d or none) is
\* recorded, the middleware runs, the model answers.
LongTurn(p, d, tokens) ==
    /\ accepted < MaxLongTurns
    /\ LET asked == Append(memory[LongThread], Message("user", p, d, tokens))
       IN \E h \in summarize(asked) :
             memory' = [memory EXCEPT ![LongThread] = Append(h, Message("ai", None, None, 200))]
    /\ known' = [profil |-> p, domaine |-> IF d = None THEN known.domaine ELSE d]
    /\ accepted' = accepted + 1
    /\ UNCHANGED <<source, indexFile, rhTools, call, turn, resp, csv, loader, trace, vs, op,
                   procs, inits, agentInstance, inflight, service>>

NextCompaction ==
    \E p \in ProfileType, d \in DomaineType \cup {None}, tokens \in {100, 400} :
        LongTurn(p, d, tokens)

SpecCompaction == Init /\ [][NextCompaction]_vars

\* ------------------------------------------------------ the API process
\* lifespan: get_rh_agent() builds the RHAgent (the LLM clients, the memory,
\* the agent over get_tools_list()); an exception is printed and raised
\* again, and the application does not start.
Lifespan(fault) ==
    /\ service = "starting"
    /\ service' = IF fault THEN "failed" ELSE "ready"
    /\ agentInstance' = ~fault
    /\ inits' = [inits EXCEPT !.agents = IF fault THEN @ ELSE @ + 1]
    /\ UNCHANGED <<source, indexFile, rhTools, call, memory, turn, resp, accepted,
                   csv, loader, trace, vs, op, procs, inflight, known>>

\* The routes serve once the application has started.
Serving == service = "ready"

NextService ==
    \/ \E fault \in BOOLEAN : Lifespan(fault)
    \/ \E q \in Queries, p \in ProfileType, d \in DomaineType \cup {None},
          t \in ThreadInputs : Serving /\ Invoke(q, p, d, t)
    \/ \E p \in ProfileType, d \in DomaineType \cup {None},
          initFault \in FirstUseFaults, fault \in BOOLEAN :
              Serving /\ ModelCallsTool(p, d, initFault, fault)
    \/ \E content \in ModelContents : Serving /\ ModelAnswers(content)
    \/ Serving /\ ModelFails
    \/ Serving /\ Finish

SpecService == Init /\ [][NextService]_vars

\* ---- first-use claims
\* C18: whatever the interleaving of the first uses, the process makes at
\* most one RHTools, at most one RHAgent, and loads or builds the index at
\* most once (completed initialisations only; no call forces a recreate).
C18_AtMostOneInitialisation ==
    /\ inits.tools <= 1
    /\ inits.agents <= 1
    /\ inits.indexes <= 1

\* ---- thread claims
\* The thread a query is for: its thread id, or "default" when it has none.
ThreadOf(query) ==
    IF query.thread_id = None \/ query.thread_id = "" THEN "default" ELSE query.thread_id

\* The query of the request that a step moves.
Moved(r) == inflight'[r] # inflight[r]
MovedQuery(r) == IF inflight[r].pc = "idle" THEN inflight'[r].query ELSE inflight[r].query

IsPrefix(s, t) == Len(s) <= Len(t) /\ SubSeq(t, 1, Len(s)) = s

\* C20: a step of a turn for thread A starts from the history of thread A,
\* writes only the history of thread A, and leaves the history of every
\* other thread as it was, whatever the other requests are doing.
C20_ThreadIsolation ==
    [][/\ memory' # memory => \E r \in Requests : Moved(r)
       /\ \A r \in Requests :
            Moved(r) =>
              LET A == ThreadOf(MovedQuery(r))
              IN /\ \A B \in ThreadIds \ {A} : memory'[B] = memory[B]
                 /\ inflight[r].pc = "idle"
                      => /\ IsPrefix(memory[A], inflight'[r].messages)
                         /\ memory'[A] = inflight'[r].messages
                 /\ (inflight[r].pc # "idle" /\ memory' # memory)
                      => /\ IsPrefix(inflight[r].messages, inflight'[r].messages)
                         /\ memory'[A] = inflight'[r].messages]_vars

\* Two turns are in progress at once on different threads, and each thread's
\* history holds the messages of its own turn.
C20_Witness ==
    /\ inflight[1].pc = "model" /\ inflight[2].pc = "model"
    /\ ThreadOf(inflight[1].query) # ThreadOf(inflight[2].query)
    /\ inflight[1].nCalls = 1 /\ inflight[2].nCalls = 1
    /\ \A r \in {1, 2} :
          /\ memory[ThreadOf(inflight[r].query)] = inflight[r].messages
          /\ Len(inflight[r].messages) = 3

\* The turns whose user message the history of thread t holds.
UserTurns(t) == Cardinality({i \in DOMAIN memory[t] : memory[t][i].role = "user"})

\* C21: turns of one thread are serialised: no two calls in progress are on
\* the same thread, and the histories hold the user message of every turn
\* that was accepted (no update of a history is lost).
C21_TurnsSerialised ==
    /\ \A r1 \in Requests, r2 \in Requests :
          (r1 # r2 /\ inflight[r1].pc # "idle" /\ inflight[r2].pc # "idle")
          => ThreadOf(inflight[r1].query) # ThreadOf(inflight[r2].query)
    /\ UserTurns("default") + UserTurns("t1") = accepted

\* ---- service claims
\* C22: the service is ready only once a working index has been built or
\* restored, and no turn is in progress while the process holds no index.
C22_ReadyOnlyWithIndex ==
    /\ service = "ready" => rhTools.exists
    /\ turn.pc # "idle" => (service = "ready" /\ (rhTools.exists \/ turn.pc = "done"))

\* ---- search and delete claims
\* C25 as stated: a search on a store on which no create_from_documents,
\* load or get_or_create has succeeded raises VectorStoreError.
C25_SearchBeforeSuccessRaises ==
    (op.kind = "search" /\ ~op.built) => op.res = Raise("VectorStoreError")

\* C25: a search on a store that holds no index raises VectorStoreError; a
\* search never raises anything else and never changes the store or the
\* directory's index; a store holds an index after every call that built or
\* restored one, create_from_documents whose save failed included, and a
\* search on it returns at most k of its documents, all matching the filter,
\* unless the index operation fails.
C25_SearchOnUnreadyStore ==
    /\ op.kind = "search" =>
          /\ ~op.ready => op.res = Raise("VectorStoreError")
          /\ op.res.raised => op.res.exc = "VectorStoreError"
          /\ op.ready = vs.exists
          /\ (op.ready /\ ~op.fault) =>
                /\ ~op.res.raised
                /\ Len(op.res.val) <= op.k
                /\ \A i \in DOMAIN op.res.val :
                      /\ op.res.val[i] \in Range(vs.docs)
                      /\ \A key \in DOMAIN op.filter : op.res.val[i][key] = op.filter[key]
    /\ (op.kind \in {"create", "load", "get_or_create"} /\ ~op.res.raised) => vs.exists
    /\ (op.kind = "create" /\ op.embedded) => vs.exists
    /\ vs.exists => \E k \in {VECTORSTORE_K}, f \in SearchFilters :
                        \A r \in search(vs, k, f, FALSE) : ~r.raised

\* A search has succeeded on a store whose only build raised at the save.
C25_Witness ==
    /\ op.kind = "search" /\ op.ready /\ ~op.built
    /\ ~op.res.raised /\ op.res.val # <<>>

\* C30: after delete() has returned, the store holds no index and the
\* directory is gone, so a search on it raises VectorStoreError.
C30_DeleteLeavesNothing ==
    op.kind = "delete"
    => /\ vs = NoIndex
       /\ indexFile = NoDir
       /\ \A f \in SearchFilters : search(vs, VECTORSTORE_K, f, FALSE) = {Raise("VectorStoreError")}

\* ---- build claims
\* The table file fails to give documents.
TableFails(c) == load_then_to_documents(c).raised
\* The table file has every column and half of its rows or more are invalid.
HalfInvalid(c) ==
    /\ c.exists /\ required_columns \subseteq c.columns /\ c.rows # <<>>
    /\ 2 * Cardinality({i \in DOMAIN c.rows : validate_row(c.rows[i], i).raised})
          >= Len(c.rows)

\* C23: when get_or_create takes the build branch and the table fails to
\* load, the call raises the loader's error (InvalidDataFormatError when half
\* of the rows are invalid), the store's handle is what it was and the
\* directory holds what it held.
C23_FailedLoadBuildsNothing ==
    (op.kind = "get_or_create" /\ op.did = "create" /\ TableFails(op.table))
    => /\ op.res.raised
       /\ op.res.exc \in {"CSVLoadError", "InvalidDataFormatError", "DataError"}
       /\ HalfInvalid(op.table) => op.res = Raise("InvalidDataFormatError")
       /\ vs = op.held
       /\ indexFile = op.before

\* A forced rebuild over a persisted index has failed on a half-invalid
\* table: the format error was raised and the persisted index is still there.
C23_Witness ==
    /\ op.kind = "get_or_create" /\ op.did = "create" /\ op.force
    /\ HalfInvalid(op.table)
    /\ op.res = Raise("InvalidDataFormatError")
    /\ op.before.exists /\ indexFile = op.before
    /\ vs = NoIndex

\* ---- reload claims
\* The current loader has run load_csv, and its last run succeeded or failed.
LastLoadOk == trace.onLoader /\ ~trace.last.res.raised
LastLoadFailed == trace.onLoader /\ trace.last.res.raised

\* C24: to_documents raises only DataError; it returns documents after a
\* load_csv that succeeded, and raises when the loader's most recent load_csv
\* did not succeed.
C24_NotLoadedOnlyBeforeRecords ==
    trace.docs.made
    => /\ trace.docs.res.raised => trace.docs.res = Raise("DataError")
       /\ LastLoadOk => ~trace.docs.res.raised
       /\ LastLoadFailed => trace.docs.res.raised

\* C29: a load_csv that raises leaves the loader's records as they were, and
\* to_documents after it gives what it gave for those records.
C29_FailedLoadKeepsRecords ==
    LastLoadFailed
    => /\ loader.data = trace.held
       /\ trace.docs.made => trace.docs.res = to_documents(trace.held)

\* A loader that holds records has failed a load on a half-invalid table and
\* has then given the documents of the records it held.
C29_Witness ==
    /\ LastLoadFailed
    /\ trace.last.res = Raise("InvalidDataFormatError")
    /\ trace.held # <<>> /\ loader.data = trace.held
    /\ trace.docs.made /\ ~trace.docs.res.raised
    /\ Len(trace.docs.res.val) = Len(trace.held)

\* ---- rendering claims
\* The search of the call returned documents.
Found == call.made /\ call.ready /\ ~call.searched.raised /\ call.searched.val # <<>>

\* C26: when the search returns n >= 1 documents, the tool returns n blocks
\* in the order of the results, the i-th being the header numbered i, the
\* text of the i-th document, the profil and domaine of that document and a
\* blank line; the text starts with neither reserved prefix.
C26_FoundRendering ==
    Found
    => LET docs == call.searched.val
           text == call.res.val
       IN /\ ~call.res.raised
          /\ Len(text) = 4 * Len(docs)
          /\ \A i \in DOMAIN docs :
                /\ text[4 * i - 3] = [line |-> "--- Résultat", n |-> i]
                /\ text[4 * i - 2] = [line |-> "page_content",
                                      question_id |-> docs[i].question_id]
                /\ text[4 * i - 1] = [line |-> "(Profil, Domaine)",
                                      profil |-> docs[i].profil, domaine |-> docs[i].domaine]
                /\ text[4 * i] = [line |-> ""]
          /\ text[1] \notin {NOT_FOUND_PREFIX, TECH_PREFIX}
          /\ Outcome(call.res) \notin {"Raised", "NotFound", "TechnicalError"}

\* A call without domain has returned three documents of two domains.
C26_Witness ==
    /\ Found
    /\ Len(call.searched.val) = 3
    /\ call.domaine = None
    /\ \E i, j \in DOMAIN call.searched.val :
          call.searched.val[i].domaine # call.searched.val[j].domaine

\* ---- compaction claims
\* The facts the history of the long thread states.
Stated(field) == {memory[LongThread][i][field] : i \in DOMAIN memory[LongThread]} \ {None}

\* C27: the history of a thread holds at most one summary, at its head, with
\* the raw messages kept after it, and the profile and the domain known in
\* the thread are still stated in the history that the next turn reads.
C27_CompactionKeepsFacts ==
    /\ \A i \in DOMAIN memory[LongThread] : memory[LongThread][i].role = "summary" => i = 1
    /\ known.profil # None => known.profil \in Stated("profil")
    /\ known.domaine # None => known.domaine \in Stated("domaine")

\* ---- thread key claims
\* C28: a call of invoke works on the history of query.thread_id when that is
\* a non-empty string and on the history of "default" otherwise: it starts
\* from that history and adds the user message to it, and the AgentResponse it
\* returns, answer or error, names that same thread.
C28_ThreadKey ==
    [][\A r \in Requests :
          /\ (inflight[r].pc = "idle" /\ inflight'[r].pc # "idle") =>
                LET query == inflight'[r].query
                    key == IF query.thread_id \in {None, ""} THEN "default"
                           ELSE query.thread_id
                    sent == [role |-> "user", content |-> user_message(query)]
                IN /\ inflight'[r].messages = Append(memory[key], sent)
                   /\ memory'[key] = Append(memory[key], sent)
          /\ (inflight[r].pc # "done" /\ inflight'[r].pc = "done") =>
                LET query == inflight[r].query
                IN /\ ~inflight'[r].resp.raised
                   /\ inflight'[r].resp.val.thread_id =
                         (IF query.thread_id \in {None, ""} THEN "default"
                          ELSE query.thread_id)]_vars

\* A call with an empty thread id has answered as thread "default", whose
\* history also holds the turn of an earlier caller.
C28_Witness ==
    /\ inflight[1].pc = "done"
    /\ inflight[1].query.thread_id = ""
    /\ inflight[1].resp.val.thread_id = "default"
    /\ inflight[1].resp.val.error = NoneStr
    /\ Len(inflight[1].messages) = 4
    /\ memory["default"] = inflight[1].messages
    /\ UserTurns("default") = 2

=============================================================================
